---- MODULE Spec2Model ----
(***************************************************************************)
(* A model of the Mailchimp API client of src/client.go: the constructor   *)
(* NewClient, the base-URL accessors, Subscribe, the request primitive do  *)
(* and the response classifier checkResponse.                              *)
(*                                                                         *)
(* Go strings whose characters the code inspects (the API key, the list    *)
(* identifier) are sequences of one-character strings; Str renders them.   *)
(***************************************************************************)
EXTENDS Integers, Sequences, FiniteSets, TLC

VARIABLES
    nc,      \* the last NewClient call: its arguments and what it returned
    cr,      \* the last checkResponse call: the response and what it returned
    c,       \* the Client under test (fields client, baseURL, dc, apiKey)
    call,    \* the do call in flight: position, locals, response, result
    got,     \* what the last GetBaseURL call returned
    lastSet  \* the base URL most recently stored into the client

vars == <<nc, cr, c, call, got, lastSet>>

----------------------------------------------------------------------------
(* Bounds of the model *)

MaxKeyLen == 3
MaxSessionKeyLen == 2
MaxListIDLen == 1

----------------------------------------------------------------------------
(* Strings *)

KeyChars == {"k", "-", " "}

RECURSIVE SeqsUpTo(_, _)
SeqsUpTo(S, n) ==
    IF n = 0 THEN {<<>>}
    ELSE LET shorter == SeqsUpTo(S, n - 1)
         IN  shorter \cup {Append(s, x) : s \in shorter, x \in S}

RECURSIVE Str(_)
Str(s) == IF s = <<>> THEN "" ELSE Head(s) \o Str(Tail(s))

\* strings.Split(s, sep) for a one-character sep: the substrings between
\* the occurrences of sep, n + 1 of them for n occurrences.
RECURSIVE Split(_, _)
Split(s, sep) ==
    IF \A i \in 1..Len(s) : s[i] # sep THEN <<s>>
    ELSE LET i == CHOOSE j \in 1..Len(s) :
                      s[j] = sep /\ \A k \in 1..(j - 1) : s[k] # sep
         IN  <<SubSeq(s, 1, i - 1)>> \o Split(SubSeq(s, i + 1, Len(s)), sep)

----------------------------------------------------------------------------
(* Errors and URLs *)

ZeroErrorResponse == [Type |-> "", Title |-> "", Status |-> 0, Detail |-> ""]

\* A Go error value: nil, or an error of some kind; an *ErrorResponse
\* carries its four fields in e.
Err(kind) == [kind |-> kind, e |-> ZeroErrorResponse]
NilErr == Err("nil")

\* A *url.URL: nil, or a parsed URL.
NilURL == [nil |-> TRUE, Scheme |-> "", Host |-> "", Path |-> ""]
URL(scheme, host, path) ==
    [nil |-> FALSE, Scheme |-> scheme, Host |-> host, Path |-> path]

\* (*url.URL).String() as fmt's %s renders it: fmt prints "<nil>" for a nil
\* pointer receiver.
URLString(u) ==
    IF u.nil THEN "<nil>" ELSE u.Scheme \o "://" \o u.Host \o u.Path

\* url.Parse of "https://<dc>.api.mailchimp.com/3.0": a host holding a
\* character that is not allowed in a host name is a parse error.
InvalidHostChars == {" "}
ParseBaseURL(dc) ==
    IF \E i \in 1..Len(dc) : dc[i] \in InvalidHostChars
    THEN [url |-> NilURL, err |-> Err("url.Parse")]
    ELSE [url |-> URL("https", Str(dc) \o ".api.mailchimp.com", "/3.0"),
          err |-> NilErr]

----------------------------------------------------------------------------
(* NewClient *)

NilClient ==
    [nil |-> TRUE, client |-> "", baseURL |-> NilURL, dc |-> <<>>, apiKey |-> <<>>]

Transports == {"nil", "custom"}

\* The segment count NewClient requires of the API key.
KeySegments == 2

\* Lines 42-55: the data center is the second segment, the transport
\* defaults to http.DefaultClient, and the base URL has to parse.
BuildClient(apiKey, httpClient) ==
    LET dc == Split(apiKey, "-")[2]
        parsed == ParseBaseURL(dc)
    IN  IF parsed.err # NilErr
        THEN [client |-> NilClient, err |-> parsed.err]
        ELSE [client |-> [nil |-> FALSE,
                          client |-> IF httpClient = "nil" THEN "DefaultClient"
                                     ELSE httpClient,
                          baseURL |-> parsed.url, dc |-> dc, apiKey |-> apiKey],
              err |-> NilErr]

NewClient_AtLeastTwoSegments(apiKey, httpClient) ==
    IF Len(Split(apiKey, "-")) < KeySegments
    THEN [client |-> NilClient, err |-> Err("config")]
    ELSE BuildClient(apiKey, httpClient)

NewClient(apiKey, httpClient) ==
    IF Len(Split(apiKey, "-")) # KeySegments
    THEN [client |-> NilClient, err |-> Err("config")]
    ELSE BuildClient(apiKey, httpClient)

----------------------------------------------------------------------------
(* JSON documents and the codec *)

\* A member of a JSON object: absent, a string or a number.
Absent == [t |-> "absent", s |-> "", n |-> 0]
JStr(x) == [t |-> "string", s |-> x, n |-> 0]
JNum(k) == [t |-> "number", s |-> "", n |-> k]

\* The members the model follows: the four of the error envelope, and id.
NoFields ==
    [type |-> Absent, title |-> Absent, status |-> Absent, detail |-> Absent,
     id |-> Absent]

\* The bytes of a body, by what the codec sees in them: nothing, bytes that
\* are not JSON, or a JSON value (null, an array, an object with the members
\* in fields), possibly followed by bytes that are not JSON (trailing).
Doc(kind, fields, trailing) ==
    [kind |-> kind, fields |-> fields, trailing |-> trailing]

\* A response body: its bytes, and whether reading it fails.
Body(doc, readErr) == [doc |-> doc, readErr |-> readErr]

\* ioutil.ReadAll: the bytes and a nil error, or an error.
ReadAll(body) ==
    IF body.readErr THEN [ok |-> FALSE, data |-> Doc("empty", NoFields, FALSE)]
    ELSE [ok |-> TRUE, data |-> body.doc]

\* Decoding the first JSON value of the data, whatever follows it.
Unmarshal_Streaming(data, target) ==
    IF data.kind # "object" THEN target
    ELSE LET f == data.fields
         IN  [Type   |-> IF f.type.t = "string" THEN f.type.s ELSE target.Type,
              Title  |-> IF f.title.t = "string" THEN f.title.s
                         ELSE target.Title,
              Status |-> IF f.status.t = "number" THEN f.status.n
                         ELSE target.Status,
              Detail |-> IF f.detail.t = "string" THEN f.detail.s
                         ELSE target.Detail]

\* json.Unmarshal(data, errorResponse), its error dropped: data that is not
\* one valid JSON value leaves the target alone, so do null and a value that
\* is not an object; of an object, each member of the right JSON type is
\* stored in its field, and a member of another type is skipped.
Unmarshal(data, target) ==
    IF data.kind # "object" \/ data.trailing THEN target
    ELSE LET f == data.fields
         IN  [Type   |-> IF f.type.t = "string" THEN f.type.s
                         ELSE target.Type,
              Title  |-> IF f.title.t = "string" THEN f.title.s
                         ELSE target.Title,
              Status |-> IF f.status.t = "number" THEN f.status.n
                         ELSE target.Status,
              Detail |-> IF f.detail.t = "string" THEN f.detail.s
                         ELSE target.Detail]

\* A decoded interface{}: nil, a []interface{} or a map[string]interface{}.
NilValue == [kind |-> "nil", fields |-> NoFields]

\* json.NewDecoder(body).Decode(&v) for a v of type interface{}: the first
\* JSON value of the stream, whatever follows it.
Decode(body) ==
    IF body.readErr \/ body.doc.kind \in {"empty", "invalid"}
    THEN [v |-> NilValue, err |-> Err("json.Decode")]
    ELSE [v |-> CASE body.doc.kind = "null" -> NilValue
                  [] body.doc.kind = "array" ->
                         [kind |-> "slice", fields |-> NoFields]
                  [] body.doc.kind = "object" ->
                         [kind |-> "map", fields |-> body.doc.fields],
          err |-> NilErr]

----------------------------------------------------------------------------
(* checkResponse *)

StatusOKMin == 200
StatusOKMax == 299

ErrorResponseErr(e) == [kind |-> "ErrorResponse", e |-> e]

\* What checkResponse returns, and whether it read the body.
checkResponse_StatusFromResponse(r) ==
    IF StatusOKMin <= r.StatusCode /\ r.StatusCode <= StatusOKMax
    THEN [err |-> NilErr, bodyRead |-> FALSE]
    ELSE LET rd == ReadAll(r.Body)
             e == IF rd.ok THEN Unmarshal(rd.data, ZeroErrorResponse)
                  ELSE ZeroErrorResponse
         IN  [err |-> ErrorResponseErr([e EXCEPT !.Status = r.StatusCode]),
              bodyRead |-> TRUE]

checkResponse_ExclusiveUpper(r) ==
    IF StatusOKMin <= r.StatusCode /\ r.StatusCode < StatusOKMax
    THEN [err |-> NilErr, bodyRead |-> FALSE]
    ELSE LET rd == ReadAll(r.Body)
         IN  [err |-> ErrorResponseErr(
                          IF rd.ok THEN Unmarshal(rd.data, ZeroErrorResponse)
                          ELSE ZeroErrorResponse),
              bodyRead |-> TRUE]

checkResponse(r) ==
    IF StatusOKMin <= r.StatusCode /\ r.StatusCode <= StatusOKMax
    THEN [err |-> NilErr, bodyRead |-> FALSE]
    ELSE LET rd == ReadAll(r.Body)
         IN  [err |-> ErrorResponseErr(
                          IF rd.ok THEN Unmarshal(rd.data, ZeroErrorResponse)
                          ELSE ZeroErrorResponse),
              bodyRead |-> TRUE]

----------------------------------------------------------------------------
(* Inputs *)

Credentials == SeqsUpTo(KeyChars, MaxKeyLen)

StatusCodes == {199, 200, 204, 299, 300, 400, 404, 500}

Objects ==
    {[type |-> a, title |-> b, status |-> st, detail |-> d, id |-> i] :
        a \in {Absent, JStr("t"), JNum(7)},
        b \in {Absent, JStr("Not Found"), JNum(7)},
        st \in {Absent, JNum(404), JStr("404")},
        d \in {Absent, JStr("x"), JNum(7)},
        i \in {Absent, JStr("1")}}

Docs ==
    {Doc("empty", NoFields, FALSE), Doc("invalid", NoFields, FALSE)}
        \cup {Doc(k, NoFields, t) : k \in {"null", "array"}, t \in BOOLEAN}
        \cup {Doc("object", f, t) : f \in Objects, t \in BOOLEAN}

Bodies == {Body(d, e) : d \in Docs, e \in BOOLEAN}

Response(status, body) == [StatusCode |-> status, Body |-> body]
NoResponse == Response(0, Body(Doc("empty", NoFields, FALSE), FALSE))

----------------------------------------------------------------------------
(* Idle values of the variables *)

NoNewClientCall ==
    [apiKey |-> <<>>, httpClient |-> "nil", called |-> FALSE,
     client |-> NilClient, err |-> NilErr]

NoCheckResponseCall ==
    [resp |-> NoResponse, called |-> FALSE, err |-> NilErr, bodyRead |-> FALSE]

NoBody == [kind |-> "nil", email_address |-> "", status |-> ""]

NotGot == [called |-> FALSE, url |-> NilURL]

NoWire == [method |-> "", url |-> "", user |-> "", pass |-> "", body |-> NoBody]

IdleCall ==
    [pc |-> "idle", method |-> "", path |-> <<>>, body |-> NoBody,
     buf |-> NoBody, base |-> NilURL, url |-> "", user |-> "", pass |-> "",
     sent |-> 0, wire |-> NoWire, transportFailed |-> FALSE,
     hasResp |-> FALSE, resp |-> NoResponse, closed |-> 0,
     bodyRead |-> FALSE, decoded |-> FALSE,
     ret |-> [v |-> NilValue, err |-> NilErr]]

----------------------------------------------------------------------------
(* The constructor alone: every API key, with and without a transport *)

InitNew ==
    /\ nc \in {[NoNewClientCall EXCEPT !.apiKey = k, !.httpClient = t] :
                  k \in Credentials, t \in Transports}
    /\ cr = NoCheckResponseCall
    /\ c = NilClient
    /\ call = IdleCall
    /\ got = NotGot
    /\ lastSet = NilURL

NewClientCall ==
    /\ ~nc.called
    /\ LET r == NewClient(nc.apiKey, nc.httpClient)
       IN  nc' = [nc EXCEPT !.called = TRUE, !.client = r.client, !.err = r.err]
    /\ UNCHANGED <<cr, c, call, got, lastSet>>

NextNew == NewClientCall

SpecNew == InitNew /\ [][NextNew]_vars

----------------------------------------------------------------------------
(* The classifier alone: every status code with every body *)

InitClassify ==
    /\ cr \in {[NoCheckResponseCall EXCEPT !.resp = Response(st, b)] :
                  st \in StatusCodes, b \in Bodies}
    /\ nc = NoNewClientCall
    /\ c = NilClient
    /\ call = IdleCall
    /\ got = NotGot
    /\ lastSet = NilURL

CheckResponseCall ==
    /\ ~cr.called
    /\ LET r == checkResponse(cr.resp)
       IN  cr' = [cr EXCEPT !.called = TRUE, !.err = r.err,
                            !.bodyRead = r.bodyRead]
    /\ UNCHANGED <<nc, c, call, got, lastSet>>

NextClassify == CheckResponseCall

SpecClassify == InitClassify /\ [][NextClassify]_vars

----------------------------------------------------------------------------
(* The client in use: Subscribe and do, step by step, with the base-URL    *)
(* accessors called in between                                             *)

ListIDChars == {"l", "%"}
ListIDs == SeqsUpTo(ListIDChars, MaxListIDLen)
Emails == {"a@b.com"}
Methods == {"GET", "BAD METHOD"}
BaseURLs == {NilURL, URL("http", "127.0.0.1:8080", "")}

WellFormed == 
    [type |-> JStr("t"), title |-> JStr("Not Found"), status |-> JNum(404),
     detail |-> JStr("x"), id |-> Absent]

\* The bodies the transport answers with: a sample of Bodies.
WireBodies ==
    {Body(d, FALSE) :
        d \in {Doc("empty", NoFields, FALSE), Doc("invalid", NoFields, FALSE),
               Doc("null", NoFields, FALSE), Doc("array", NoFields, FALSE),
               Doc("object", NoFields, FALSE),
               Doc("object", [NoFields EXCEPT !.id = JStr("1")], FALSE),
               Doc("object", WellFormed, FALSE),
               Doc("object", WellFormed, TRUE),
               Doc("object", [WellFormed EXCEPT !.title = JNum(7)], FALSE)}}
        \cup {Body(Doc("object", WellFormed, FALSE), TRUE)}

\* http.NewRequest refuses a method that is not a token and a URL that does
\* not parse: a "%" that two hexadecimal digits do not follow.
ValidMethod(m) == m \notin {"BAD METHOD"}
HexDigits ==
    {"0", "1", "2", "3", "4", "5", "6", "7", "8", "9",
     "a", "b", "c", "d", "e", "f", "A", "B", "C", "D", "E", "F"}
BadEscape(path) ==
    \E i \in 1..Len(path) :
        /\ path[i] = "%"
        /\ ~(i + 2 <= Len(path) /\ path[i + 1] \in HexDigits
                                /\ path[i + 2] \in HexDigits)

Returned(k, v, err) == [k EXCEPT !.pc = "done", !.ret = [v |-> v, err |-> err]]

\* do, lines 82-89: the body, when there is one, is encoded first.
Encoded(method, path, body) ==
    LET k == [IdleCall EXCEPT !.method = method, !.path = path, !.body = body]
    IN  IF body.kind = "nil" THEN [k EXCEPT !.pc = "encoded"]
        ELSE IF body.kind = "unencodable"
        THEN Returned(k, NilValue, Err("json.Encode"))
        ELSE [k EXCEPT !.pc = "encoded", !.buf = body]

\* The credential attached as the user name.
Requested_KeyAsUser(k, cl) ==
    LET base == cl.baseURL
        apiURL == URLString(base) \o Str(k.path)
    IN  IF ~ValidMethod(k.method) \/ BadEscape(k.path)
        THEN Returned(k, NilValue, Err("http.NewRequest"))
        ELSE [k EXCEPT !.pc = "built", !.base = base, !.url = apiURL,
                       !.user = Str(cl.apiKey), !.pass = ""]

\* do, lines 91-97: the base URL is read, the request built and the
\* credentials attached.
Requested(k, cl) ==
    LET base == cl.baseURL
        apiURL == URLString(base) \o Str(k.path)
    IN  IF ~ValidMethod(k.method) \/ BadEscape(k.path)
        THEN Returned(k, NilValue, Err("http.NewRequest"))
        ELSE [k EXCEPT !.pc = "built", !.base = base, !.url = apiURL,
                       !.user = "", !.pass = Str(cl.apiKey)]

\* A failed request sent a second time.
Sent_RetryOnce(k, failed, resp) ==
    LET wire == [method |-> k.method, url |-> k.url, user |-> k.user,
                 pass |-> k.pass, body |-> k.buf]
    IN  IF failed
        THEN Returned([k EXCEPT !.sent = @ + 2, !.wire = wire,
                                !.transportFailed = TRUE],
                      NilValue, Err("transport"))
        ELSE [k EXCEPT !.sent = @ + 1, !.wire = wire, !.pc = "received",
                       !.hasResp = TRUE, !.resp = resp]

\* The target formed from the base URL the client holds when sending.
Sent_URLAtSendTime(k, failed, resp) ==
    LET k1 == [k EXCEPT !.sent = @ + 1,
                        !.wire = [method |-> k.method,
                                  url |-> URLString(c.baseURL) \o Str(k.path),
                                  user |-> k.user, pass |-> k.pass,
                                  body |-> k.buf]]
    IN  IF failed
        THEN Returned([k1 EXCEPT !.transportFailed = TRUE], NilValue,
                      Err("transport"))
        ELSE [k1 EXCEPT !.pc = "received", !.hasResp = TRUE, !.resp = resp]

\* do, lines 99-103: the request goes to the transport, which fails or
\* answers.
Sent(k, failed, resp) ==
    LET k1 == [k EXCEPT !.sent = @ + 1,
                        !.wire = [method |-> k.method, url |-> k.url,
                                  user |-> k.user, pass |-> k.pass,
                                  body |-> k.buf]]
    IN  IF failed
        THEN Returned([k1 EXCEPT !.transportFailed = TRUE], NilValue,
                      Err("transport"))
        ELSE [k1 EXCEPT !.pc = "received", !.hasResp = TRUE, !.resp = resp]

\* Close called after a successful decode instead of deferred.
Finished_CloseOnSuccess(k) ==
    LET chk == checkResponse(k.resp)
        k1 == [k EXCEPT !.bodyRead = chk.bodyRead]
    IN  IF chk.err # NilErr THEN Returned(k1, NilValue, chk.err)
        ELSE LET dec == Decode(k.resp.Body)
                 k2 == [k1 EXCEPT !.decoded = TRUE, !.bodyRead = TRUE]
             IN  IF dec.err # NilErr THEN Returned(k2, NilValue, dec.err)
                 ELSE Returned([k2 EXCEPT !.closed = @ + 1], dec.v, NilErr)

\* The body decoded whatever the classifier says, and returned with its
\* error.
Finished_DecodeAnyway(k) ==
    LET chk == checkResponse(k.resp)
        dec == Decode(k.resp.Body)
        k1 == [k EXCEPT !.closed = @ + 1, !.bodyRead = TRUE, !.decoded = TRUE]
    IN  IF chk.err # NilErr THEN Returned(k1, dec.v, chk.err)
        ELSE IF dec.err # NilErr THEN Returned(k1, NilValue, dec.err)
        ELSE Returned(k1, dec.v, NilErr)

\* do, lines 103-115: the response is classified and, when it is a success,
\* decoded; the deferred Close runs as do returns.
Finished(k) ==
    LET chk == checkResponse(k.resp)
        k1 == [k EXCEPT !.closed = @ + 1, !.bodyRead = chk.bodyRead]
    IN  IF chk.err # NilErr THEN Returned(k1, NilValue, chk.err)
        ELSE LET dec == Decode(k.resp.Body)
                 k2 == [k1 EXCEPT !.decoded = TRUE, !.bodyRead = TRUE]
             IN  IF dec.err # NilErr THEN Returned(k2, NilValue, dec.err)
                 ELSE Returned(k2, dec.v, NilErr)

Init ==
    /\ \E key \in SeqsUpTo(KeyChars, MaxSessionKeyLen), t \in Transports :
          LET r == NewClient(key, t)
          IN  /\ r.err = NilErr
              /\ nc = [apiKey |-> key, httpClient |-> t, called |-> TRUE,
                       client |-> r.client, err |-> r.err]
              /\ c = r.client
              /\ lastSet = r.client.baseURL
    /\ cr = NoCheckResponseCall
    /\ call = IdleCall
    /\ got = NotGot

GetBaseURL ==
    /\ got' = [called |-> TRUE, url |-> c.baseURL]
    /\ UNCHANGED <<nc, cr, c, call, lastSet>>

Stored(cl, baseURL) == [cl EXCEPT !.baseURL = baseURL]

SetBaseURL(baseURL) ==
    /\ c' = Stored(c, baseURL)
    /\ lastSet' = baseURL
    /\ UNCHANGED <<nc, cr, call, got>>

Subscribe(email, listID) ==
    /\ call.pc \in {"idle", "done"}
    /\ call' = Encoded("POST", <<"/lists/">> \o listID \o <<"/members/">>,
                       [kind |-> "map", email_address |-> email,
                        status |-> "subscribed"])
    /\ UNCHANGED <<nc, cr, c, got, lastSet>>

\* A call of do with other arguments than Subscribe's.
do(method, body) ==
    /\ call.pc \in {"idle", "done"}
    /\ call' = Encoded(method, <<"/ping">>, body)
    /\ UNCHANGED <<nc, cr, c, got, lastSet>>

doRequest ==
    /\ call.pc = "encoded"
    /\ call' = Requested(call, c)
    /\ UNCHANGED <<nc, cr, c, got, lastSet>>

doSend ==
    /\ call.pc = "built"
    /\ \/ call' = Sent(call, TRUE, NoResponse)
       \/ \E st \in StatusCodes, b \in WireBodies :
             call' = Sent(call, FALSE, Response(st, b))
    /\ UNCHANGED <<nc, cr, c, got, lastSet>>

doFinish ==
    /\ call.pc = "received"
    /\ call' = Finished(call)
    /\ UNCHANGED <<nc, cr, c, got, lastSet>>

Next ==
    \/ GetBaseURL
    \/ \E u \in BaseURLs : SetBaseURL(u)
    \/ \E e \in Emails, l \in ListIDs : Subscribe(e, l)
    \/ \E m \in Methods, kind \in {"nil", "unencodable"} :
          do(m, [NoBody EXCEPT !.kind = kind])
    \/ doRequest
    \/ doSend
    \/ doFinish

Spec == Init /\ [][Next]_vars

----------------------------------------------------------------------------
(* Properties *)

Is2xx(st) == 200 <= st /\ st <= 299

\* The number of occurrences of ch in s.
RECURSIVE Count(_, _)
Count(s, ch) ==
    IF s = <<>> THEN 0
    ELSE (IF Head(s) = ch THEN 1 ELSE 0) + Count(Tail(s), ch)

HasEmptySegment(apiKey) ==
    \E i \in 1..Len(Split(apiKey, "-")) : Split(apiKey, "-")[i] = <<>>

\* A body that is exactly one JSON object whose type, title and detail are
\* strings and whose status is a number.
WellFormedEnvelope(body) ==
    /\ ~body.readErr
    /\ body.doc.kind = "object"
    /\ ~body.doc.trailing
    /\ body.doc.fields.type.t = "string"
    /\ body.doc.fields.title.t = "string"
    /\ body.doc.fields.status.t = "number"
    /\ body.doc.fields.detail.t = "string"

\* A body json.Unmarshal reports an error for: bytes that are not one JSON
\* value, a value that is not an object, or an object with a member of the
\* wrong type.
Unparseable(doc) ==
    \/ doc.kind \in {"empty", "invalid", "array"}
    \/ doc.trailing
    \/ /\ doc.kind = "object"
       /\ \/ doc.fields.type.t = "number"
          \/ doc.fields.title.t = "number"
          \/ doc.fields.status.t = "string"
          \/ doc.fields.detail.t = "number"

\* C1: a key that does not hold exactly one "-" is refused with the
\* configuration error and no client, with a transport given or not.
C1_MalformedKeyRejected ==
    nc.called /\ Count(nc.apiKey, "-") # 1
        => nc.client.nil /\ nc.err = Err("config")

C1_Witness ==
    /\ nc.called
    /\ Count(nc.apiKey, "-") = 2
    /\ nc.httpClient = "custom"
    /\ nc.client.nil
    /\ nc.err = Err("config")

\* C2: a key with an empty key segment or an empty region segment is
\* refused with the configuration error and no client.
C2_EmptySegmentRejected ==
    nc.called /\ HasEmptySegment(nc.apiKey)
        => nc.client.nil /\ nc.err = Err("config")

\* C3: checkResponse returns nil exactly for the status codes 200..299,
\* whatever the body; for any other it returns an *ErrorResponse; for a 2xx
\* status it does not read the body.
C3_ClassifiedByStatus ==
    cr.called =>
        /\ (cr.err = NilErr) <=> Is2xx(cr.resp.StatusCode)
        /\ ~Is2xx(cr.resp.StatusCode) => cr.err.kind = "ErrorResponse"
        /\ Is2xx(cr.resp.StatusCode) => ~cr.bodyRead

C3_Witness ==
    /\ cr.called
    /\ cr.resp.StatusCode = 299
    /\ cr.resp.Body.doc.kind = "invalid"
    /\ cr.err = NilErr
    /\ ~cr.bodyRead

\* C4: a non-2xx response whose body is a well-formed envelope makes do
\* return an *ErrorResponse with the body's four members, no value, and
\* without decoding the body as a success payload.
C4_EnvelopeReturned ==
    (/\ call.pc = "done"
     /\ call.hasResp
     /\ ~Is2xx(call.resp.StatusCode)
     /\ WellFormedEnvelope(call.resp.Body))
        => LET f == call.resp.Body.doc.fields
           IN  /\ call.ret.err =
                      [kind |-> "ErrorResponse",
                       e |-> [Type |-> f.type.s, Title |-> f.title.s,
                              Status |-> f.status.n, Detail |-> f.detail.s]]
               /\ call.ret.v = NilValue
               /\ ~call.decoded

C4_Witness ==
    /\ call.pc = "done"
    /\ call.method = "POST"
    /\ call.hasResp
    /\ call.resp.StatusCode = 400
    /\ WellFormedEnvelope(call.resp.Body)
    /\ call.ret.err.kind = "ErrorResponse"
    /\ call.ret.err.e.Status = 404

\* C5 as stated: a non-2xx response whose body is empty, cannot be read or
\* does not parse as the envelope yields an *ErrorResponse with all four
\* fields zero.
C5_ZeroWhenUnparseable ==
    (/\ cr.called
     /\ ~Is2xx(cr.resp.StatusCode)
     /\ cr.resp.Body.readErr \/ Unparseable(cr.resp.Body.doc))
        => cr.err = [kind |-> "ErrorResponse", e |-> ZeroErrorResponse]

\* C5 amended: a non-2xx response whose body is empty, cannot be read or is
\* not exactly one JSON object yields an *ErrorResponse with all four fields
\* zero; of a JSON object, each member of the right type is in its field
\* and every other field is zero.
C5_ZeroUnlessObject ==
    cr.called /\ ~Is2xx(cr.resp.StatusCode) =>
        LET b == cr.resp.Body
            f == b.doc.fields
        IN  /\ cr.err.kind = "ErrorResponse"
            /\ b.readErr \/ b.doc.kind # "object" \/ b.doc.trailing
                   => cr.err.e = ZeroErrorResponse
            /\ ~b.readErr /\ b.doc.kind = "object" /\ ~b.doc.trailing
                   => /\ cr.err.e.Type = (IF f.type.t = "string" THEN f.type.s ELSE "")
                      /\ cr.err.e.Title = (IF f.title.t = "string" THEN f.title.s ELSE "")
                      /\ cr.err.e.Status = (IF f.status.t = "number" THEN f.status.n ELSE 0)
                      /\ cr.err.e.Detail = (IF f.detail.t = "string" THEN f.detail.s ELSE "")

C5_Witness ==
    /\ cr.called
    /\ cr.resp.StatusCode = 500
    /\ ~cr.resp.Body.readErr
    /\ cr.resp.Body.doc.kind = "object"
    /\ ~cr.resp.Body.doc.trailing
    /\ cr.resp.Body.doc.fields.title.t = "number"
    /\ cr.err.e = [ZeroErrorResponse EXCEPT !.Type = "t"]

\* C6: once the transport has answered, the body is closed exactly once by
\* the time do returns, on every exit; when the transport fails, do returns
\* its error and no body is read or closed.
C6_BodyClosedOnce ==
    /\ call.pc # "done" => call.closed = 0
    /\ call.pc = "done" /\ call.hasResp => call.closed = 1
    /\ call.pc = "done" /\ ~call.hasResp
           => call.closed = 0 /\ ~call.bodyRead /\ ~call.decoded
    /\ call.pc = "done" /\ call.transportFailed
           => ~call.hasResp /\ call.ret.err = Err("transport")

C6_Witness ==
    /\ call.pc = "done"
    /\ call.hasResp
    /\ call.ret.err.kind = "ErrorResponse"
    /\ call.closed = 1

\* C7: a call of do sends no request when encoding the body or building the
\* request fails, and exactly one otherwise; a transport failure is the
\* call's error and is not retried.
C7_AtMostOneRequest ==
    /\ call.sent <= 1
    /\ call.pc \in {"idle", "encoded", "built"} => call.sent = 0
    /\ call.pc = "received" => call.sent = 1
    /\ call.pc = "done" =>
           /\ call.sent = 0
                  <=> call.ret.err.kind \in {"json.Encode", "http.NewRequest"}
           /\ call.transportFailed
                  => /\ call.sent = 1
                     /\ call.ret = [v |-> NilValue, err |-> Err("transport")]

C7_Witness ==
    /\ call.pc = "done"
    /\ call.transportFailed
    /\ call.sent = 1
    /\ call.ret.err = Err("transport")

\* C8 as stated: a completed call has a value and no error, or an error and
\* no value.
C8_ExactlyOneOutcome ==
    call.pc = "done"
        => (call.ret.v # NilValue) # (call.ret.err # NilErr)

\* C8 amended: a completed call never has both a value and an error; it has
\* neither only for a 2xx response whose body is the JSON value null; and a
\* 2xx response never yields an *ErrorResponse.
C8_AtMostOneOutcome ==
    call.pc = "done" =>
        /\ ~(call.ret.v # NilValue /\ call.ret.err # NilErr)
        /\ call.ret.v = NilValue /\ call.ret.err = NilErr
               => /\ call.hasResp
                  /\ Is2xx(call.resp.StatusCode)
                  /\ call.resp.Body.doc.kind = "null"
        /\ call.hasResp /\ Is2xx(call.resp.StatusCode)
               => call.ret.err.kind \in {"nil", "json.Decode"}

C8_Witness ==
    /\ call.pc = "done"
    /\ call.hasResp
    /\ call.resp.StatusCode = 200
    /\ call.resp.Body.doc.kind = "null"
    /\ call.ret = [v |-> NilValue, err |-> NilErr]

\* C9: the client keeps the constructor's credential and transport, only
\* SetBaseURL changes the base URL, and every request sent carries an empty
\* user name and the constructor's credential as password.
C9_CredentialFixed ==
    /\ c.apiKey = nc.apiKey
    /\ c.client = (IF nc.httpClient = "nil" THEN "DefaultClient"
                   ELSE nc.httpClient)
    /\ c.baseURL = lastSet
    /\ call.sent >= 1
           => call.wire.user = "" /\ call.wire.pass = Str(nc.apiKey)

C9_Witness ==
    /\ call.sent = 1
    /\ got.called
    /\ c.baseURL # nc.client.baseURL
    /\ call.wire.user = ""
    /\ call.wire.pass = Str(nc.apiKey)
    /\ nc.apiKey # <<"-">>

\* C10: do reads the base URL once: the request's target is the base URL the
\* client held at that step followed by the path, the request sent has that
\* target whatever SetBaseURL stores afterwards, and GetBaseURL returns the
\* base URL stored last.
C10_SingleBaseURL ==
    [][/\ call.pc = "encoded" /\ call'.pc = "built"
              => /\ call'.base = c.baseURL
                 /\ call'.url = URLString(c.baseURL) \o Str(call.path)
       /\ call.pc = "built" /\ call'.sent = 1
              => call'.wire.url = URLString(call.base) \o Str(call.path)
       /\ call.sent = 1 /\ call'.sent = 1
              => call'.wire.url = call.wire.url
       /\ got' # got => got'.url = lastSet]_vars

C10_Witness ==
    /\ call.pc = "received"
    /\ call.sent = 1
    /\ call.base # c.baseURL
    /\ ~call.base.nil
    /\ call.wire.url = URLString(call.base) \o Str(call.path)

====
